---------------------------- MODULE Spec2Model ----------------------------
(***************************************************************************)
(* Valida Prospect (src/main.py): the enrichment pipeline                  *)
(* enriquecer_dataframe and the pure functions it is built from.           *)
(*                                                                         *)
(* Python values are encoded as follows.  A character string is a sequence *)
(* of one-character strings.  A nullable value is None (the empty tuple)   *)
(* or Some(v) (the one-element tuple <<v>>).  A spreadsheet cell is a      *)
(* string Str(s) or NaN, the float pandas gives an empty cell.             *)
(***************************************************************************)
EXTENDS Integers, Sequences, FiniteSets, TLC

VARIABLES
    pc,                     \* position inside enriquecer_dataframe
    df,                     \* the input rows, each [email, cnpj]
    linha,                  \* 1-based index of the row the current stage is at
    col_email_valido,       \* df["email_valido_formato"]
    col_dominio_existe,     \* df["dominio_existe"], built row by row
    dominio_cache,          \* per-run memo: domain -> bool
    cnpj_cache,             \* per-run memo: normalized CNPJ -> info or None
    chamadas_api_no_ciclo,  \* calls since the last cooldown
    resultados,             \* the list of result rows
    df_final,               \* the returned frame (None until the run returns)
    eventos,                \* observed external effects of the current run
    consultados_antes,      \* CNPJs sent to the registry by earlier runs
    arquivos,               \* what the process has written to durable storage
    email_in, email_out,    \* argument and result of email_valido_formato
    api_vistos              \* (status, result) pairs seen from consultar_cnpj_api

pipeVars == <<pc, df, linha, col_email_valido, col_dominio_existe, dominio_cache,
              cnpj_cache, chamadas_api_no_ciclo, resultados, df_final,
              eventos, consultados_antes, arquivos>>
emailVars == <<email_in, email_out>>
apiVars == <<api_vistos>>
vars == <<pipeVars, emailVars, apiVars>>

---------------------------------------------------------------------------
\* Bounds of the model.
MaxRows == 4
MaxEmailRows == 3
MaxLongRows == 7
MaxRunRows == 4
MaxEmailLen == 6

---------------------------------------------------------------------------
\* Python values.
None == <<>>
Some(v) == <<v>>
Val(o) == o[1]
NaN == <<>>
Str(s) == <<s>>
IsStr(cell) == cell # NaN

Digitos == {"0", "1", "2", "3", "4", "5", "6", "7", "8", "9"}
Brancos == {" ", "\t"}
Maiusculas == <<"A", "B", "C", "D", "E", "X">>
Minusculas == <<"a", "b", "c", "d", "e", "x">>

\* str.strip(): drop the whitespace at both ends.
strip(s) ==
    LET keep == {i \in 1..Len(s) : s[i] \notin Brancos}
    IN  IF keep = {} THEN <<>>
        ELSE LET lo == CHOOSE i \in keep : \A j \in keep : i <= j
                 hi == CHOOSE i \in keep : \A j \in keep : j <= i
             IN  SubSeq(s, lo, hi)

\* str.lower() on the letters of the model's alphabet.
lowerChar(c) ==
    IF \E i \in 1..Len(Maiusculas) : Maiusculas[i] = c
    THEN Minusculas[CHOOSE i \in 1..Len(Maiusculas) : Maiusculas[i] = c]
    ELSE c
lower(s) == [i \in 1..Len(s) |-> lowerChar(s[i])]

\* str.split("@"): the pieces between the separators, in order.
RECURSIVE split(_)
split(s) ==
    IF \A i \in 1..Len(s) : s[i] # "@" THEN <<s>>
    ELSE LET k == CHOOSE i \in 1..Len(s) :
                      s[i] = "@" /\ \A j \in 1..(i - 1) : s[j] # "@"
         IN  <<SubSeq(s, 1, k - 1)>> \o split(SubSeq(s, k + 1, Len(s)))

\* re.sub(r"\D", "", s)
soDigitos(s) == SelectSeq(s, LAMBDA c : c \in Digitos)

---------------------------------------------------------------------------
\* email_valido_formato with the "." looked for in the local part instead of
\* the domain part.
email_valido_formatoPontoNoUsuario(cell) ==
    IF ~IsStr(cell) THEN FALSE
    ELSE LET email == strip(Val(cell))
             partes == split(email)
         IN  IF \A i \in 1..Len(email) : email[i] # "@" THEN FALSE
             ELSE IF Len(partes) # 2 THEN FALSE
             ELSE LET usuario == partes[1]
                      dominio == partes[2]
                  IN  IF strip(usuario) = <<>> THEN FALSE
                      ELSE IF strip(dominio) = <<>> THEN FALSE
                      ELSE IF \A i \in 1..Len(usuario) : usuario[i] # "." THEN FALSE
                      ELSE IF dominio[Len(dominio)] = "." THEN FALSE
                      ELSE TRUE

\* email_valido_formato, with the order of its early returns.
email_valido_formato(cell) ==
    IF ~IsStr(cell) THEN FALSE
    ELSE LET email == strip(Val(cell))
             partes == split(email)
         IN  IF \A i \in 1..Len(email) : email[i] # "@" THEN FALSE
             ELSE IF Len(partes) # 2 THEN FALSE
             ELSE LET usuario == partes[1]
                      dominio == partes[2]
                  IN  IF strip(usuario) = <<>> THEN FALSE
                      ELSE IF strip(dominio) = <<>> THEN FALSE
                      ELSE IF \A i \in 1..Len(dominio) : dominio[i] # "." THEN FALSE
                      ELSE IF dominio[Len(dominio)] = "." THEN FALSE
                      ELSE TRUE

\* extrair_dominio: the part after the last "@", trimmed and lower-cased.
extrair_dominio(cell) ==
    IF ~IsStr(cell) THEN None
    ELSE LET email == strip(Val(cell))
         IN  IF \A i \in 1..Len(email) : email[i] # "@" THEN None
             ELSE LET partes == split(email)
                      dom == lower(strip(partes[Len(partes)]))
                  IN  IF dom = <<>> THEN None ELSE Some(dom)

---------------------------------------------------------------------------
\* Python truthiness of a nullable string, and the `or` of two of them.
Truthy(o) == o # None /\ Val(o) # <<>>
Or(a, b) == IF Truthy(a) THEN a ELSE b

CnpjLen == 14

\* limpar_cnpj with the length test on the raw text instead of its digits.
limpar_cnpjSemLimpar(cell) ==
    LET cnpj == IF IsStr(cell) THEN Val(cell) ELSE <<"n", "a", "n">>
        digitos == soDigitos(cnpj)
    IN  IF Len(cnpj) # CnpjLen THEN None ELSE Some(digitos)

\* limpar_cnpj that only refuses more than 14 digits.
limpar_cnpjSoMaximo(cell) ==
    LET cnpj == IF IsStr(cell) THEN Val(cell) ELSE <<"n", "a", "n">>
        digitos == soDigitos(cnpj)
    IN  IF Len(digitos) > CnpjLen THEN None ELSE Some(digitos)

\* limpar_cnpj: str() of a non-string, digits only, exactly 14 of them or None.
\* (str(NaN) is "nan".)
limpar_cnpj(cell) ==
    LET cnpj == IF IsStr(cell) THEN Val(cell) ELSE <<"n", "a", "n">>
        digitos == soDigitos(cnpj)
    IN  IF Len(digitos) # CnpjLen THEN None ELSE Some(digitos)

\* The value of a decimal digit, and int() of a two-digit string.
digitoVal(c) == CHOOSE n \in 0..9 : <<"0", "1", "2", "3", "4", "5", "6", "7", "8", "9">>[n + 1] = c
int2(s) == 10 * digitoVal(s[1]) + digitoVal(s[2])

\* segmento_macro_por_cnae: the macro segment of a CNAE code, "" when the code
\* has fewer than two digits or its section is in none of the ranges.  (The
\* labels are written here without their accents.)
segmento_macro_por_cnae(cnae_codigo) ==
    LET digitos == soDigitos(cnae_codigo)
    IN  IF Len(digitos) < 2 THEN ""
        ELSE LET sec == int2(SubSeq(digitos, 1, 2))
             IN  CASE 1 <= sec /\ sec <= 3 -> "Agropecuaria"
                   [] 5 <= sec /\ sec <= 9 -> "Industrias extrativas"
                   [] 10 <= sec /\ sec <= 33 -> "Industrias de transformacao"
                   [] sec = 35 -> "Eletricidade e gas"
                   [] 36 <= sec /\ sec <= 39 -> "Agua, esgoto, residuos"
                   [] 41 <= sec /\ sec <= 43 -> "Construcao"
                   [] 45 <= sec /\ sec <= 47 -> "Comercio / Varejo"
                   [] 49 <= sec /\ sec <= 53 -> "Transporte e correio"
                   [] 55 <= sec /\ sec <= 56 -> "Alojamento e alimentacao"
                   [] 58 <= sec /\ sec <= 63 -> "Informacao e comunicacao"
                   [] 64 <= sec /\ sec <= 66 -> "Financas e seguros"
                   [] sec = 68 -> "Imobiliario"
                   [] 69 <= sec /\ sec <= 75 -> "Servicos profissionais"
                   [] 77 <= sec /\ sec <= 82 -> "Servicos administrativos"
                   [] sec = 84 -> "Administracao publica"
                   [] sec = 85 -> "Educacao"
                   [] 86 <= sec /\ sec <= 88 -> "Saude e assistencia social"
                   [] 90 <= sec /\ sec <= 93 -> "Artes, esporte e recreacao"
                   [] 94 <= sec /\ sec <= 96 -> "Outros servicos"
                   [] 97 <= sec /\ sec <= 98 -> "Servicos domesticos"
                   [] sec = 99 -> "Organismos internacionais"
                   [] OTHER -> ""

---------------------------------------------------------------------------
\* What the registry endpoint can answer.  A response is
\*   [excecao, status_code, json]: excecao is a transport error raised by
\*   requests.get; json is the decoded body, [tipo |-> "invalido"] when
\*   resp.json() raises, [tipo |-> "outro"] when it is not an object.
Txt(s) == Some(s)
CnaeVarejo == <<"4", "7", "1", "1", "-", "3", "/", "0", "1">>
CnaeSemSecao == <<"4", "0", "0", "0">>
Ativa == <<"A", "t", "i", "v", "a">>
Baixada == <<"B", "a", "i", "x", "a", "d", "a">>
Descricao == <<"d", "e", "s", "c">>

Atividade(id, codigo, descricao) ==
    Some([tipo |-> "dict", id |-> id, codigo |-> codigo, descricao |-> descricao])
Estabelecimento(situacao, atividade) ==
    Some([tipo |-> "dict", situacao_cadastral |-> situacao,
          atividade_principal |-> atividade])
Corpo(estabelecimento, situacao) ==
    [tipo |-> "dict", estabelecimento |-> estabelecimento,
     situacao_cadastral |-> situacao]
NaoDict == Some([tipo |-> "outro"])

CorpoVarejo ==
    Corpo(Estabelecimento(Txt(Ativa), Atividade(Txt(CnaeVarejo), None, Txt(Descricao))),
          None)
CorpoSemSecao ==
    Corpo(Estabelecimento(None, Atividade(None, Txt(CnaeSemSecao), None)), Txt(Baixada))
Corpos ==
    { CorpoVarejo, CorpoSemSecao,
      Corpo(Estabelecimento(Txt(<<>>), NaoDict), Txt(Baixada)),
      Corpo(Estabelecimento(Txt(Ativa), None), None),
      Corpo(None, None),
      Corpo(NaoDict, Txt(Ativa)),
      [tipo |-> "outro"],
      [tipo |-> "invalido"] }

CorpoVazio == [tipo |-> "invalido"]
StatusCodes == {200, 404, 429, 500}

Respostas ==
    { [excecao |-> FALSE, status_code |-> 200, json |-> c] : c \in Corpos }
    \cup { [excecao |-> FALSE, status_code |-> s, json |-> CorpoVazio] :
             s \in StatusCodes \ {200} }
    \cup { [excecao |-> TRUE, status_code |-> 0, json |-> CorpoVazio] }

\* The answers the registry gives during a run: two registrations and a
\* refusal (every other failure reaches the run as the same None).
RespostasDoLote ==
    { r \in Respostas :
        \/ r.status_code = 200 /\ r.json \in {CorpoVarejo, CorpoSemSecao}
        \/ r.status_code = 429 }

\* consultar_cnpj_api, as a function of the response requests.get produced.
consultar_cnpj_api(resp) ==
    IF resp.excecao THEN None
    ELSE IF resp.status_code = 429 THEN None
    ELSE IF resp.status_code # 200 THEN None
    ELSE IF resp.json.tipo = "invalido" THEN None
    ELSE IF resp.json.tipo # "dict" THEN None
    ELSE
      LET data == resp.json
          estabelecimento ==
              IF data.estabelecimento = None
                 \/ Val(data.estabelecimento).tipo # "dict"
              THEN [tipo |-> "dict", situacao_cadastral |-> None,
                    atividade_principal |-> None]
              ELSE Val(data.estabelecimento)
          situacao == Or(estabelecimento.situacao_cadastral, data.situacao_cadastral)
          cnae_principal == estabelecimento.atividade_principal
          ehDict == cnae_principal # None /\ Val(cnae_principal).tipo = "dict"
          cnae_codigo ==
              IF ehDict
              THEN Or(Or(Val(cnae_principal).id, Val(cnae_principal).codigo), Txt(<<>>))
              ELSE Txt(<<>>)
          cnae_desc ==
              IF ehDict THEN Or(Val(cnae_principal).descricao, Txt(<<>>))
              ELSE Txt(<<>>)
      IN  Some([situacao_cadastral |-> situacao,
                cnae_principal_codigo |-> cnae_codigo,
                cnae_principal_descricao |-> cnae_desc])

---------------------------------------------------------------------------
\* The batches a run is started on.
DigitoDe(j) == <<"0", "1", "2", "3", "4", "5", "6", "7", "8", "9">>[j + 1]

\* The j-th CNPJ of the model, bare (14 digits) and as usually written,
\* "11.111.111/1111-1j".
IdCnpj(j) == [i \in 1..CnpjLen |-> IF i = CnpjLen THEN DigitoDe(j) ELSE "1"]
Formatado(d) ==
    SubSeq(d, 1, 2) \o <<".">> \o SubSeq(d, 3, 5) \o <<".">> \o SubSeq(d, 6, 8)
    \o <<"/">> \o SubSeq(d, 9, 12) \o <<"-">> \o SubSeq(d, 13, 14)

\* Cells that are no CNPJ: 13 digits (a leading zero lost), an empty cell, and
\* 15 digits.
TrezeDigitos == Str(SubSeq(IdCnpj(1), 1, 13))
QuinzeDigitos == Str(Formatado(IdCnpj(1)) \o <<"0">>)
CelulasInvalidas == { TrezeDigitos, NaN }
CelulasCnpj ==
    CelulasInvalidas \cup { Str(IdCnpj(j)) : j \in 1..MaxRows }
    \cup { Str(Formatado(IdCnpj(1))) }

\* The CNPJs are interchangeable (the code only compares them), so a column
\* introduces them in order: IdCnpj(j + 1) only after IdCnpj(j).
EmOrdem(col) ==
    \A i \in 1..Len(col) : \A j \in 2..MaxRows :
        col[i] = Str(IdCnpj(j)) => \E h \in 1..(i - 1) : col[h] = Str(IdCnpj(j - 1))
ColunasCnpj ==
    { c \in UNION { [1..n -> CelulasCnpj] : n \in 0..MaxRows } : EmOrdem(c) }

CelulasEmail ==
    { Str(<<"A", "@", "b", ".", "c">>), Str(<<" ", "x", "@", "B", ".", "C", " ">>),
      Str(<<"a", "@", "d", ".", "e">>), Str(<<"a", "b">>), NaN }
ColunasEmail == UNION { [1..n -> CelulasEmail] : n \in 0..MaxEmailRows }

\* The e-mail written beside the i-th CNPJ of a CNPJ column, and the other way round.
EmailFixo(i) == IF i % 2 = 1 THEN Str(<<"a", "b">>) ELSE NaN
CnpjFixo(i) == IF i % 2 = 1 THEN QuinzeDigitos ELSE NaN

\* Longer columns, over several cooldown windows: n rows going round m CNPJs.
ColunasLongas ==
    { [i \in 1..n |-> Str(IdCnpj(((i - 1) % m) + 1))] :
        n \in 1..MaxLongRows, m \in 1..MaxLongRows }

Lotes ==
    { [i \in 1..Len(c) |-> [email |-> EmailFixo(i), cnpj |-> c[i]]] :
        c \in ColunasCnpj \cup ColunasLongas }
    \cup
    { [i \in 1..Len(e) |-> [email |-> e[i], cnpj |-> CnpjFixo(i)]] : e \in ColunasEmail }

\* The batches of a process that is run again and again: up to MaxRunRows rows
\* going round up to MaxRunRows CNPJs, and one or two e-mails beside no CNPJ.
LotesRepetidos ==
    { [i \in 1..n |-> [email |-> EmailFixo(i), cnpj |-> Str(IdCnpj(((i - 1) % m) + 1))]] :
        n \in 0..MaxRunRows, m \in 1..MaxRunRows }
    \cup
    { [i \in 1..Len(e) |-> [email |-> e[i], cnpj |-> CnpjFixo(i)]] :
        e \in { c \in ColunasEmail : Len(c) <= 2 } }

---------------------------------------------------------------------------
\* The run: enriquecer_dataframe.
max_chamadas_por_ciclo == 3
tempo_espera == 65

Evento(tipo, arg) == [tipo |-> tipo, arg |-> arg]
ChamadasApi == { i \in 1..Len(eventos) : eventos[i].tipo = "api" }
Esperas == { i \in 1..Len(eventos) : eventos[i].tipo = "sleep" }
ChamadasDns == { i \in 1..Len(eventos) : eventos[i].tipo = "dns" }

\* The no-result row with the empty string as its segment.
SemResultadoSegVazio ==
    [cnpj_situacao_cadastral |-> None, cnae_principal_codigo |-> None,
     cnae_principal_descricao |-> None, segmento_macro |-> Some("")]

\* The no-result row: four nulls.
SemResultado ==
    [cnpj_situacao_cadastral |-> None, cnae_principal_codigo |-> None,
     cnae_principal_descricao |-> None, segmento_macro |-> None]

\* The row built from a successful lookup.
LinhaDe(info) ==
    [cnpj_situacao_cadastral |-> info.situacao_cadastral,
     cnae_principal_codigo |-> info.cnae_principal_codigo,
     cnae_principal_descricao |-> info.cnae_principal_descricao,
     segmento_macro |->
         Some(segmento_macro_por_cnae(Val(Or(info.cnae_principal_codigo, Txt(<<>>)))))]

\* `if not info`: None is falsy, a dict of three keys is truthy.
LinhaResultado(info) == IF info = None THEN SemResultado ELSE LinhaDe(Val(info))

\* resultados.insert(0, row)
AnexarNoInicio(lista, row) == <<row>> \o lista

\* resultados.append(row)
Anexar(lista, row) == Append(lista, row)

\* A cache that keeps only its last entry.
GuardarSoUltimo(cache, cnpj_limpo, info) == [k \in {cnpj_limpo} |-> info]

\* A cache that keeps only successful lookups.
GuardarSoSucesso(cache, cnpj_limpo, info) ==
    IF info = None THEN cache
    ELSE [k \in DOMAIN cache \cup {cnpj_limpo} |->
             IF k = cnpj_limpo THEN info ELSE cache[k]]

\* cnpj_cache[cnpj_limpo] = info
GuardarNoCache(cache, cnpj_limpo, info) ==
    [k \in DOMAIN cache \cup {cnpj_limpo} |-> IF k = cnpj_limpo THEN info ELSE cache[k]]

\* A memo that keeps only the domains that exist.
GuardarDominioSoExistente(cache, dom, ok) ==
    IF ok THEN [k \in DOMAIN cache \cup {dom} |-> IF k = dom THEN ok ELSE cache[k]]
    ELSE cache

\* dominio_cache[dom] = ok
GuardarDominio(cache, dom, ok) ==
    [k \in DOMAIN cache \cup {dom} |-> IF k = dom THEN ok ELSE cache[k]]

\* The window test with > for >=.
LimiteAtingidoMaior == chamadas_api_no_ciclo > max_chamadas_por_ciclo

\* chamadas_api_no_ciclo >= max_chamadas_por_ciclo
LimiteAtingido == chamadas_api_no_ciclo >= max_chamadas_por_ciclo

\* dominio_existe, given the environment of the query: whether dnspython was
\* imported (dns_resolver is not None) and whether the MX and the A query answer.
dominio_existe(dominio, dns_resolver, mx, a) ==
    IF lower(strip(dominio)) = <<>> THEN FALSE
    ELSE IF ~dns_resolver THEN FALSE
    ELSE IF mx THEN TRUE
    ELSE IF a THEN TRUE
    ELSE FALSE

Vazio == [k \in {} |-> None]

InitRun ==
    /\ pc = "Idle"
    /\ df = <<>>
    /\ linha = 1
    /\ col_email_valido = <<>>
    /\ col_dominio_existe = <<>>
    /\ dominio_cache = Vazio
    /\ cnpj_cache = Vazio
    /\ chamadas_api_no_ciclo = 0
    /\ resultados = <<>>
    /\ df_final = None
    /\ eventos = <<>>
    /\ consultados_antes = {}
    /\ arquivos = Vazio

Init ==
    /\ InitRun
    /\ email_in = NaN
    /\ email_out = None
    /\ api_vistos = {}

\* main(): the button is pressed on an uploaded table, one of `lotes`.
IniciarCom(lotes) ==
    /\ pc = "Idle"
    /\ \E lote \in lotes : df' = lote
    /\ pc' = "Validating"
    /\ eventos' = <<>>
    /\ linha' = 1
    /\ col_email_valido' = <<>>
    /\ col_dominio_existe' = <<>>
    /\ dominio_cache' = Vazio
    /\ cnpj_cache' = Vazio
    /\ chamadas_api_no_ciclo' = 0
    /\ resultados' = <<>>
    /\ df_final' = None
    /\ UNCHANGED <<consultados_antes, arquivos, emailVars, apiVars>>

Iniciar == IniciarCom(Lotes)

\* 1) df["email_valido_formato"] = df[col_email].apply(email_valido_formato);
\*    dominio_cache = {}
ValidarEmails ==
    /\ pc = "Validating"
    /\ col_email_valido' = [i \in 1..Len(df) |-> email_valido_formato(df[i].email)]
    /\ dominio_cache' = Vazio
    /\ col_dominio_existe' = <<>>
    /\ linha' = 1
    /\ pc' = "DomainChecking"
    /\ UNCHANGED <<df, cnpj_cache, chamadas_api_no_ciclo, resultados, df_final,
                   eventos, consultados_antes, arquivos, emailVars, apiVars>>

\* 2) checar_dominio_email on the next row.
ChecarDominioEmail ==
    /\ pc = "DomainChecking"
    /\ linha <= Len(df)
    /\ LET dom == extrair_dominio(df[linha].email)
       IN  \/ /\ dom = None
              /\ col_dominio_existe' = Append(col_dominio_existe, FALSE)
              /\ UNCHANGED <<dominio_cache, eventos>>
           \/ /\ dom # None
              /\ Val(dom) \in DOMAIN dominio_cache
              /\ col_dominio_existe' =
                     Append(col_dominio_existe, dominio_cache[Val(dom)])
              /\ UNCHANGED <<dominio_cache, eventos>>
           \/ /\ dom # None
              /\ Val(dom) \notin DOMAIN dominio_cache
              /\ \E dns_resolver \in BOOLEAN, mx \in BOOLEAN, a \in BOOLEAN :
                    LET ok == dominio_existe(Val(dom), dns_resolver, mx, a)
                    IN  /\ dominio_cache' = GuardarDominio(dominio_cache, Val(dom), ok)
                        /\ col_dominio_existe' = Append(col_dominio_existe, ok)
              /\ eventos' = Append(eventos, Evento("dns", Val(dom)))
    /\ linha' = linha + 1
    /\ UNCHANGED <<pc, df, col_email_valido, cnpj_cache, chamadas_api_no_ciclo,
                   resultados, df_final, consultados_antes, arquivos, emailVars, apiVars>>

\* 3) cnpj_cache = {}; chamadas_api_no_ciclo = 0; resultados = []
ComecarCnpj ==
    /\ pc = "DomainChecking"
    /\ linha > Len(df)
    /\ cnpj_cache' = Vazio
    /\ chamadas_api_no_ciclo' = 0
    /\ resultados' = <<>>
    /\ linha' = 1
    /\ pc' = "TaxIdEnriching"
    /\ UNCHANGED <<df, col_email_valido, col_dominio_existe, dominio_cache, df_final,
                   eventos, consultados_antes, arquivos, emailVars, apiVars>>

\* A row whose CNPJ does not clean to 14 digits.
CnpjInvalido ==
    /\ pc = "TaxIdEnriching"
    /\ linha <= Len(df)
    /\ limpar_cnpj(df[linha].cnpj) = None
    /\ resultados' = Anexar(resultados, SemResultado)
    /\ linha' = linha + 1
    /\ UNCHANGED <<pc, df, col_email_valido, col_dominio_existe, dominio_cache,
                   cnpj_cache, chamadas_api_no_ciclo, df_final, eventos,
                   consultados_antes, arquivos, emailVars, apiVars>>

\* A row whose CNPJ is in cnpj_cache.
CnpjEmCache ==
    /\ pc = "TaxIdEnriching"
    /\ linha <= Len(df)
    /\ LET cnpj_limpo == limpar_cnpj(df[linha].cnpj)
       IN  /\ cnpj_limpo # None
           /\ Val(cnpj_limpo) \in DOMAIN cnpj_cache
           /\ resultados' = Anexar(resultados, LinhaResultado(cnpj_cache[Val(cnpj_limpo)]))
    /\ linha' = linha + 1
    /\ UNCHANGED <<pc, df, col_email_valido, col_dominio_existe, dominio_cache,
                   cnpj_cache, chamadas_api_no_ciclo, df_final, eventos,
                   consultados_antes, arquivos, emailVars, apiVars>>

\* A new CNPJ with the window used up: time.sleep(tempo_espera) and the reset.
\* The same row then goes on to Consultar.
Aguardar ==
    /\ pc = "TaxIdEnriching"
    /\ linha <= Len(df)
    /\ LET cnpj_limpo == limpar_cnpj(df[linha].cnpj)
       IN  /\ cnpj_limpo # None
           /\ Val(cnpj_limpo) \notin DOMAIN cnpj_cache
    /\ LimiteAtingido
    /\ chamadas_api_no_ciclo' = 0
    /\ eventos' = Append(eventos, Evento("sleep", tempo_espera))
    /\ UNCHANGED <<pc, df, linha, col_email_valido, col_dominio_existe, dominio_cache,
                   cnpj_cache, resultados, df_final, consultados_antes,
                   arquivos, emailVars, apiVars>>

\* A new CNPJ inside the window: the call, the cache write, the counter, the row.
Consultar ==
    /\ pc = "TaxIdEnriching"
    /\ linha <= Len(df)
    /\ ~LimiteAtingido
    /\ LET cnpj_limpo == limpar_cnpj(df[linha].cnpj)
       IN  /\ cnpj_limpo # None
           /\ Val(cnpj_limpo) \notin DOMAIN cnpj_cache
           /\ \E resp \in RespostasDoLote :
                 LET info == consultar_cnpj_api(resp)
                 IN  /\ cnpj_cache' = GuardarNoCache(cnpj_cache, Val(cnpj_limpo), info)
                     /\ resultados' = Anexar(resultados, LinhaResultado(info))
           /\ eventos' = Append(eventos, Evento("api", Val(cnpj_limpo)))
    /\ chamadas_api_no_ciclo' = chamadas_api_no_ciclo + 1
    /\ linha' = linha + 1
    /\ UNCHANGED <<pc, df, col_email_valido, col_dominio_existe, dominio_cache,
                   df_final, consultados_antes, arquivos, emailVars, apiVars>>

\* pd.concat([df.reset_index(drop=True), enriquecido_df], axis=1): the i-th
\* input row beside the i-th result row; rows without a partner are padded.
Concatenar ==
    [i \in 1..(IF Len(df) >= Len(resultados) THEN Len(df) ELSE Len(resultados)) |->
        [entrada |-> IF i <= Len(df) THEN Some(df[i]) ELSE None,
         email_valido_formato |->
             IF i <= Len(col_email_valido) THEN Some(col_email_valido[i]) ELSE None,
         dominio_existe |->
             IF i <= Len(col_dominio_existe) THEN Some(col_dominio_existe[i]) ELSE None,
         enriquecido |-> IF i <= Len(resultados) THEN Some(resultados[i]) ELSE None]]

Retornar ==
    /\ pc = "TaxIdEnriching"
    /\ linha > Len(df)
    /\ df_final' = Some(Concatenar)
    /\ pc' = "Done"
    /\ UNCHANGED <<df, linha, col_email_valido, col_dominio_existe, dominio_cache,
                   cnpj_cache, chamadas_api_no_ciclo, resultados, eventos,
                   consultados_antes, arquivos, emailVars, apiVars>>

\* The function has returned and its frame is gone; the process waits for the
\* next press of the button.
Encerrar ==
    /\ pc = "Done"
    /\ pc' = "Idle"
    /\ consultados_antes' =
           consultados_antes \cup { eventos[i].arg : i \in ChamadasApi }
    /\ df' = <<>>
    /\ eventos' = <<>>
    /\ linha' = 1
    /\ col_email_valido' = <<>>
    /\ col_dominio_existe' = <<>>
    /\ dominio_cache' = Vazio
    /\ cnpj_cache' = Vazio
    /\ chamadas_api_no_ciclo' = 0
    /\ resultados' = <<>>
    /\ df_final' = None
    /\ UNCHANGED <<arquivos, emailVars, apiVars>>

\* One run of enriquecer_dataframe, on any batch of Lotes.
Next ==
    \/ Iniciar
    \/ ValidarEmails
    \/ ChecarDominioEmail
    \/ ComecarCnpj
    \/ CnpjInvalido
    \/ CnpjEmCache
    \/ Aguardar
    \/ Consultar
    \/ Retornar

Spec == Init /\ [][Next]_vars

\* The process over any number of runs, each on a batch of LotesRepetidos.
IniciarOutraVez == IniciarCom(LotesRepetidos)

NextRuns ==
    \/ IniciarOutraVez
    \/ ValidarEmails
    \/ ChecarDominioEmail
    \/ ComecarCnpj
    \/ CnpjInvalido
    \/ CnpjEmCache
    \/ Aguardar
    \/ Consultar
    \/ Retornar
    \/ Encerrar

SpecRuns == Init /\ [][NextRuns]_vars

---------------------------------------------------------------------------
\* email_valido_formato on its own: every cell of up to MaxEmailLen
\* characters over letters, "@", "." and whitespace, and the empty cell.
Alfabeto == {"a", "@", ".", " "}
EntradasEmail ==
    {NaN} \cup { Str(s) : s \in UNION { [1..n -> Alfabeto] : n \in 0..MaxEmailLen } }

InitEmail ==
    /\ InitRun
    /\ email_in \in EntradasEmail
    /\ email_out = None
    /\ api_vistos = {}

AplicarEmailValido ==
    /\ email_out = None
    /\ email_out' = Some(email_valido_formato(email_in))
    /\ UNCHANGED <<pipeVars, email_in, apiVars>>

NextEmail == AplicarEmailValido

SpecEmail == InitEmail /\ [][NextEmail]_vars

---------------------------------------------------------------------------
\* consultar_cnpj_api on its own: what the caller gets for each answer.
ChamarApi ==
    /\ \E resp \in Respostas :
          api_vistos' = api_vistos \cup
              { [excecao |-> resp.excecao, status_code |-> resp.status_code,
                 retorno |-> consultar_cnpj_api(resp)] }
    /\ UNCHANGED <<pipeVars, emailVars>>

NextApi == ChamarApi

SpecApi == Init /\ [][NextApi]_vars

---------------------------------------------------------------------------
\* Vocabulary of the properties.

\* The cell is a string with exactly 14 digit characters in it.
QuatorzeDigitos(cell) ==
    /\ IsStr(cell)
    /\ Cardinality({ i \in 1..Len(Val(cell)) : Val(cell)[i] \in Digitos }) = 14

\* Its 14 digits.
IdDe(cell) == soDigitos(Val(cell))

\* The distinct CNPJs of the batch.
IdsDoLote == { IdDe(df[i].cnpj) : i \in { h \in 1..Len(df) : QuatorzeDigitos(df[h].cnpj) } }

\* The registry calls of this run made before event i since the last cooldown
\* before i (or since the start of the run).
ChamadasNaJanela(i) ==
    Cardinality({ j \in ChamadasApi :
                    j <= i /\ \A h \in Esperas : ~(j < h /\ h < i) })

\* Row i has been given its result and its lookup failed (now or when cached).
LinhaFalhou(i) ==
    /\ pc \in {"TaxIdEnriching", "Done"}
    /\ i \in 1..Len(resultados)
    /\ i <= Len(df)
    /\ QuatorzeDigitos(df[i].cnpj)
    /\ IdDe(df[i].cnpj) \in DOMAIN cnpj_cache
    /\ cnpj_cache[IdDe(df[i].cnpj)] = None

\* The result row the i-th input row must get, given what the registry
\* answered for its CNPJ in this run.
LinhaEsperada(i) ==
    IF ~QuatorzeDigitos(df[i].cnpj) THEN SemResultado
    ELSE LinhaResultado(cnpj_cache[IdDe(df[i].cnpj)])

---------------------------------------------------------------------------
\* C1: the per-window call counter stays between 0 and 3, it counts the calls
\* made since the last 65-second cooldown, and no registry call is the 4th of
\* its window: a 4th call is always preceded by a cooldown.
C1_Quota ==
    /\ chamadas_api_no_ciclo \in 0..3
    /\ \A i \in ChamadasApi : ChamadasNaJanela(i) <= 3
    /\ \A h \in Esperas : eventos[h].arg = 65
    /\ pc = "TaxIdEnriching" => chamadas_api_no_ciclo = ChamadasNaJanela(Len(eventos) + 1)

\* C1 witness: a 4th new CNPJ went through, after a cooldown.
C1_Witness ==
    /\ Cardinality(ChamadasApi) >= 4
    /\ Esperas # {}
    /\ chamadas_api_no_ciclo = 1

C4_OrdemPreservada ==
    /\ pc = "TaxIdEnriching" => Len(resultados) = linha - 1
    /\ pc \in {"TaxIdEnriching", "Done"} =>
           \A i \in 1..Len(resultados) : i <= Len(df) /\ resultados[i] = LinhaEsperada(i)
    /\ pc = "Done" =>
           /\ df_final # None
           /\ Len(Val(df_final)) = Len(df)
           /\ \A i \in 1..Len(df) :
                 /\ Val(df_final)[i].entrada = Some(df[i])
                 /\ Val(df_final)[i].enriquecido = Some(LinhaEsperada(i))

\* C4 witness: a returned frame whose batch went through two cooldowns and
\* whose rows got different results.
C4_Witness ==
    /\ pc = "Done"
    /\ Cardinality(Esperas) = 2
    /\ \E i, j \in 1..Len(df) :
          /\ i < j
          /\ Val(df_final)[i].enriquecido # Val(df_final)[j].enriquecido
          /\ Val(df_final)[i].enriquecido # Some(SemResultado)
          /\ Val(df_final)[j].enriquecido # Some(SemResultado)

\* C5: a finished run has made exactly one call per distinct 14-digit CNPJ of
\* the batch and, for k such CNPJs, (k - 1) div 3 cooldowns (none for k = 0),
\* none of them after the last call.
C5_ChamadasECooldowns ==
    pc = "Done" =>
        LET k == Cardinality(IdsDoLote)
        IN  /\ Cardinality(ChamadasApi) = k
            /\ { eventos[i].arg : i \in ChamadasApi } = IdsDoLote
            /\ Cardinality(Esperas) = IF k = 0 THEN 0 ELSE (k - 1) \div 3
            /\ \A h \in Esperas : \E i \in ChamadasApi : i > h

\* C5 witness: 5 records with 4 distinct CNPJs, one repeated, a failed lookup
\* among them: 4 calls and one cooldown.
C5_Witness ==
    /\ pc = "Done"
    /\ Len(df) = 5
    /\ Cardinality(IdsDoLote) = 4
    /\ Cardinality(ChamadasApi) = 4
    /\ Cardinality(Esperas) = 1
    /\ \E a \in DOMAIN cnpj_cache : cnpj_cache[a] = None

\* C6: a row whose CNPJ cell does not hold exactly 14 digits gets the
\* no-result row and nothing else changes: no call, no cooldown, the counter
\* and the cache as they were.
C6_InvalidoSemCota ==
    [][ (pc = "TaxIdEnriching" /\ linha <= Len(df) /\ ~QuatorzeDigitos(df[linha].cnpj))
        => /\ eventos' = eventos
           /\ chamadas_api_no_ciclo' = chamadas_api_no_ciclo
           /\ cnpj_cache' = cnpj_cache
           /\ resultados' = Append(resultados, SemResultado)
           /\ linha' = linha + 1
           /\ pc' = pc ]_vars

\* C6 witness: an invalid row has been passed while the window was used up.
C6_Witness ==
    /\ pc = "TaxIdEnriching"
    /\ linha > 1
    /\ ~QuatorzeDigitos(df[linha - 1].cnpj)
    /\ chamadas_api_no_ciclo = 3
    /\ resultados[linha - 1] = SemResultado

\* C7 as claimed: a row whose lookup failed has null registry fields and the
\* empty string as its segment.
C7_SegmentoVazio ==
    \A i \in 1..Len(resultados) :
        LinhaFalhou(i) =>
            /\ resultados[i].cnpj_situacao_cadastral = None
            /\ resultados[i].cnae_principal_codigo = None
            /\ resultados[i].cnae_principal_descricao = None
            /\ resultados[i].segmento_macro = Some("")

\* C7 amended: a row whose lookup failed has null registry fields and a null
\* segment (not the empty string), and the run goes on to the next row.
C7_FalhaSemResultado ==
    /\ \A i \in 1..Len(resultados) :
          LinhaFalhou(i) =>
              /\ resultados[i].cnpj_situacao_cadastral = None
              /\ resultados[i].cnae_principal_codigo = None
              /\ resultados[i].cnae_principal_descricao = None
              /\ resultados[i].segmento_macro = None
    /\ pc = "TaxIdEnriching" => Len(resultados) = linha - 1

\* C7 witness: a failed lookup, a negative cache hit, then a successful row
\* whose segment is the empty string.
C7_Witness ==
    \E h, i, j \in 1..Len(resultados) :
        /\ h < i /\ i < j
        /\ LinhaFalhou(h)
        /\ LinhaFalhou(i)
        /\ IdDe(df[h].cnpj) = IdDe(df[i].cnpj)
        /\ resultados[j].segmento_macro = Some("")

\* C8 as claimed: what consultar_cnpj_api returns for status 429 differs from
\* what it returns for any other failure (another non-200 status, a transport
\* error).
C8_Status429Distinto ==
    \A a, b \in api_vistos :
        (/\ ~a.excecao /\ a.status_code = 429
         /\ (b.excecao \/ b.status_code \notin {200, 429}))
        => a.retorno # b.retorno

\* C9 as claimed: a string with exactly one "@", a non-empty local part and a
\* non-empty domain part that contains a "." and does not end with "." is valid.
C9_ValidoSemAparar ==
    (/\ email_out # None
     /\ IsStr(email_in)
     /\ LET s == Val(email_in)
            at == { i \in 1..Len(s) : s[i] = "@" }
        IN  /\ Cardinality(at) = 1
            /\ \E k \in at :
                  /\ k > 1
                  /\ k < Len(s)
                  /\ \E i \in (k + 1)..Len(s) : s[i] = "."
                  /\ s[Len(s)] # ".")
    => Val(email_out) = TRUE

\* The characters of s without the whitespace at its two ends, by position.
Aparado(s) ==
    LET naoBranco == { i \in 1..Len(s) : s[i] # " " /\ s[i] # "\t" }
    IN  [i \in 1..Cardinality({ j \in 1..Len(s) :
                                  \E a, b \in naoBranco : a <= j /\ j <= b }) |->
            s[i - 1 + CHOOSE a \in naoBranco : \A b \in naoBranco : a <= b]]

\* C9 amended: a string that, with the whitespace at its ends removed, has
\* exactly one "@", a local part and a domain part that are not blank, and a
\* domain part that contains a "." and does not end with ".", is valid.
C9_ValidoAparado ==
    (/\ email_out # None
     /\ IsStr(email_in)
     /\ LET s == Aparado(Val(email_in))
            at == { i \in 1..Len(s) : s[i] = "@" }
        IN  /\ Cardinality(at) = 1
            /\ \E k \in at :
                  /\ \E i \in 1..(k - 1) : s[i] \notin {" ", "\t"}
                  /\ \E i \in (k + 1)..Len(s) : s[i] \notin {" ", "\t"}
                  /\ \E i \in (k + 1)..Len(s) : s[i] = "."
                  /\ s[Len(s)] # ".")
    => Val(email_out) = TRUE

\* C9 witness: a string with whitespace inside and around it has been found valid.
C9_Witness ==
    /\ email_out = Some(TRUE)
    /\ IsStr(email_in)
    /\ Len(Val(email_in)) >= 4
    /\ Val(email_in)[1] = " "
    /\ \E i \in 2..(Len(Val(email_in)) - 1) :
          Val(email_in)[i] = "@" /\ Val(email_in)[i + 1] = " "

\* C10: within a run no two DNS resolutions are for the same trimmed,
\* lower-cased domain, and every row checked so far carries the result held
\* in the memo for its domain (FALSE when it has no domain).
C10_DnsUmaVez ==
    /\ \A i, j \in ChamadasDns :
          i # j => lower(strip(eventos[i].arg)) # lower(strip(eventos[j].arg))
    /\ \A i \in 1..Len(col_dominio_existe) :
          LET dom == extrair_dominio(df[i].email)
          IN  IF dom = None THEN col_dominio_existe[i] = FALSE
              ELSE /\ Val(dom) \in DOMAIN dominio_cache
                   /\ col_dominio_existe[i] = dominio_cache[Val(dom)]
                   /\ \E h \in ChamadasDns : eventos[h].arg = Val(dom)

\* C10 witness: three rows, two spellings of one domain that did not resolve
\* and another domain that did: two resolutions.
C10_Witness ==
    /\ pc = "DomainChecking"
    /\ Len(col_dominio_existe) = 3
    /\ df[1].email # df[2].email
    /\ extrair_dominio(df[1].email) = extrair_dominio(df[2].email)
    /\ extrair_dominio(df[1].email) # None
    /\ col_dominio_existe = <<FALSE, FALSE, TRUE>>
    /\ Cardinality(ChamadasDns) = 2

===========================================================================
